---- MODULE Spec2Model ----
(***************************************************************************)
(* A model of the OSD client of src/src/kernel/osd_client.c: the table of  *)
(* in-flight requests (an rbtree keyed by tid), the registry of osd        *)
(* sessions, the reply handler, start/wait/abort/sync of the facade, and   *)
(* the kick protocol.  Threads interleave at the points where the code     *)
(* takes or drops request_mutex, reads or writes a field without it, or    *)
(* sleeps on a completion.                                                 *)
(***************************************************************************)
EXTENDS Integers, Sequences, FiniteSets, TLC

(***************************************************************************)
(* Bounds of the model.                                                    *)
(***************************************************************************)
\* Number of request records the callers build.
MaxReqs == 3

Reqs == 1 .. MaxReqs

\* The requests started while callers, aborts and the transport all run.
MaxStarted == 2

\* The requests in flight while map messages arrive.
MaxRouted == 1

\* The null pointer (no request, no tree node, no message).
Nil == 0

\* r_osd == NULL: the request is routed to no session (no osd ordinal).
NoOsd == -2

(***************************************************************************)
(* The request index: osdc->requests, an rbtree of r_node ordered by       *)
(* r_tid.  A tree is [root, node], node[r] the rb_node embedded in request *)
(* r.  rb_link_node, rb_insert_color and rb_erase are the kernel's         *)
(* lib/rbtree.c, which decide the shape the lookups walk.                  *)
(***************************************************************************)
NilNode == [left |-> Nil, right |-> Nil, parent |-> Nil, red |-> FALSE]

RB_ROOT == [root |-> Nil, node |-> [r \in Reqs |-> NilNode]]

IsRed(t, n) == n # Nil /\ t.node[n].red

\* The link of n's parent (or the root pointer) that points at n, set to c.
ReplaceChild(t, old, p, n, c) ==
    IF p = Nil THEN [t EXCEPT !.root = c]
    ELSE IF old.node[p].left = n THEN [t EXCEPT !.node[p].left = c]
    ELSE [t EXCEPT !.node[p].right = c]

rb_set_parent(t, n, p) ==
    IF n = Nil THEN t ELSE [t EXCEPT !.node[n].parent = p]

__rb_rotate_left(t, n) ==
    LET r  == t.node[n].right
        p  == t.node[n].parent
        rl == t.node[r].left
        t1 == [t EXCEPT !.node[n].right = rl, !.node[r].left = n,
                        !.node[r].parent = p, !.node[n].parent = r]
        t2 == rb_set_parent(t1, rl, n)
    IN  ReplaceChild(t2, t, p, n, r)

__rb_rotate_right(t, n) ==
    LET l  == t.node[n].left
        p  == t.node[n].parent
        lr == t.node[l].right
        t1 == [t EXCEPT !.node[n].left = lr, !.node[l].right = n,
                        !.node[l].parent = p, !.node[n].parent = l]
        t2 == rb_set_parent(t1, lr, n)
    IN  ReplaceChild(t2, t, p, n, l)

RECURSIVE rb_insert_color(_, _)
rb_insert_color(t, n) ==
    LET p == t.node[n].parent IN
    IF ~IsRed(t, p) THEN [t EXCEPT !.node[t.root].red = FALSE]
    ELSE
      LET g == t.node[p].parent IN
      IF p = t.node[g].left THEN
        LET u == t.node[g].right IN
        IF IsRed(t, u)
        THEN rb_insert_color([t EXCEPT !.node[u].red = FALSE,
                                       !.node[p].red = FALSE,
                                       !.node[g].red = TRUE], g)
        ELSE
          LET inner == t.node[p].right = n
              t1 == IF inner THEN __rb_rotate_left(t, p) ELSE t
              p1 == IF inner THEN n ELSE p
              n1 == IF inner THEN p ELSE n
              t2 == [t1 EXCEPT !.node[p1].red = FALSE, !.node[g].red = TRUE]
          IN  rb_insert_color(__rb_rotate_right(t2, g), n1)
      ELSE
        LET u == t.node[g].left IN
        IF IsRed(t, u)
        THEN rb_insert_color([t EXCEPT !.node[u].red = FALSE,
                                       !.node[p].red = FALSE,
                                       !.node[g].red = TRUE], g)
        ELSE
          LET inner == t.node[p].left = n
              t1 == IF inner THEN __rb_rotate_right(t, p) ELSE t
              p1 == IF inner THEN n ELSE p
              n1 == IF inner THEN p ELSE n
              t2 == [t1 EXCEPT !.node[p1].red = FALSE, !.node[g].red = TRUE]
          IN  rb_insert_color(__rb_rotate_left(t2, g), n1)

\* __rb_erase_color, lib/rbtree.c: the loop body is one call, the sibling
\* cases are the operators below.  rb_set_black(root->rb_node) ends it.
RECURSIVE __rb_erase_color(_, _, _)

EraseColorEnd(t) == [t EXCEPT !.node[t.root].red = FALSE]

\* node is the left child; the sibling's far child is red.
EraseColorLeftFar(tb, parent) ==
    LET o2 == tb.node[parent].right IN
    EraseColorEnd(__rb_rotate_left(
      [tb EXCEPT !.node[o2].red = tb.node[parent].red,
                 !.node[parent].red = FALSE,
                 !.node[tb.node[o2].right].red = FALSE], parent))

\* node is the left child; the sibling is black.
EraseColorLeft(ta, parent) ==
    LET o1 == ta.node[parent].right IN
    IF ~IsRed(ta, ta.node[o1].left) /\ ~IsRed(ta, ta.node[o1].right)
    THEN __rb_erase_color([ta EXCEPT !.node[o1].red = TRUE],
                          parent, ta.node[parent].parent)
    ELSE EraseColorLeftFar(
           IF ~IsRed(ta, ta.node[o1].right)
           THEN __rb_rotate_right(
                  [ta EXCEPT !.node[ta.node[o1].left].red = FALSE,
                             !.node[o1].red = TRUE], o1)
           ELSE ta,
           parent)

\* node is the right child; the sibling's far child is red.
EraseColorRightFar(tb, parent) ==
    LET o2 == tb.node[parent].left IN
    EraseColorEnd(__rb_rotate_right(
      [tb EXCEPT !.node[o2].red = tb.node[parent].red,
                 !.node[parent].red = FALSE,
                 !.node[tb.node[o2].left].red = FALSE], parent))

\* node is the right child; the sibling is black.
EraseColorRight(ta, parent) ==
    LET o1 == ta.node[parent].left IN
    IF ~IsRed(ta, ta.node[o1].left) /\ ~IsRed(ta, ta.node[o1].right)
    THEN __rb_erase_color([ta EXCEPT !.node[o1].red = TRUE],
                          parent, ta.node[parent].parent)
    ELSE EraseColorRightFar(
           IF ~IsRed(ta, ta.node[o1].left)
           THEN __rb_rotate_left(
                  [ta EXCEPT !.node[ta.node[o1].right].red = FALSE,
                             !.node[o1].red = TRUE], o1)
           ELSE ta,
           parent)

__rb_erase_color(t, n, parent) ==
    IF ~IsRed(t, n) /\ n # t.root THEN
      IF t.node[parent].left = n THEN
        LET o0 == t.node[parent].right IN
        EraseColorLeft(
          IF IsRed(t, o0)
          THEN __rb_rotate_left([t EXCEPT !.node[o0].red = FALSE,
                                          !.node[parent].red = TRUE], parent)
          ELSE t,
          parent)
      ELSE
        LET o0 == t.node[parent].left IN
        EraseColorRight(
          IF IsRed(t, o0)
          THEN __rb_rotate_right([t EXCEPT !.node[o0].red = FALSE,
                                           !.node[parent].red = TRUE], parent)
          ELSE t,
          parent)
    ELSE IF n # Nil THEN [t EXCEPT !.node[n].red = FALSE]
    ELSE t

RECURSIVE Leftmost(_, _)
Leftmost(t, n) ==
    IF t.node[n].left = Nil THEN n ELSE Leftmost(t, t.node[n].left)

\* rb_erase, lib/rbtree.c.  The erased node's rb_node is dead until it is
\* linked again: it is recorded as NilNode.
EraseRebalance(t, n, red, child, parent) ==
    IF red THEN [t EXCEPT !.node[n] = NilNode]
    ELSE __rb_erase_color([t EXCEPT !.node[n] = NilNode], child, parent)

\* The node has two children: its successor s takes its place.
EraseInner(t, n, s) ==
    LET nd      == t.node[n]
        child   == t.node[s].right
        sparent == t.node[s].parent
        t1 == ReplaceChild(t, t, nd.parent, n, s)
        t2 == IF sparent = n THEN t1
              ELSE [rb_set_parent(t1, child, sparent) EXCEPT
                      !.node[sparent].left = child,
                      !.node[s].right = nd.right,
                      !.node[nd.right].parent = s]
    IN  EraseRebalance([t2 EXCEPT !.node[s].parent = nd.parent,
                                  !.node[s].red = nd.red,
                                  !.node[s].left = nd.left,
                                  !.node[nd.left].parent = s],
                       n, t.node[s].red, child,
                       IF sparent = n THEN s ELSE sparent)

rb_erase(t, n) ==
    LET nd == t.node[n] IN
    IF nd.left = Nil \/ nd.right = Nil THEN
      LET child == IF nd.left = Nil THEN nd.right ELSE nd.left IN
      EraseRebalance(
        ReplaceChild(rb_set_parent(t, child, nd.parent), t, nd.parent, n, child),
        n, nd.red, child, nd.parent)
    ELSE EraseInner(t, n, Leftmost(t, nd.right))

\* The requests of the index.
RECURSIVE SubtreeNodes(_, _)
SubtreeNodes(t, n) ==
    IF n = Nil THEN {}
    ELSE {n} \cup SubtreeNodes(t, t.node[n].left)
             \cup SubtreeNodes(t, t.node[n].right)

TreeNodes(t) == SubtreeNodes(t, t.root)

rb_first(t) == IF t.root = Nil THEN Nil ELSE Leftmost(t, t.root)

(***************************************************************************)
(* Walks of the index.  tid is the function from a request to its r_tid.   *)
(***************************************************************************)
\* The node under which __insert_request links the new node, and the side;
\* "bug" is the BUG() of a tid that is already in the tree.
RECURSIVE InsertPoint(_, _, _, _, _)
InsertPoint(t, tid, newtid, n, found) ==
    IF n = Nil THEN found
    ELSE IF newtid < tid[n]
      THEN InsertPoint(t, tid, newtid, t.node[n].left,
                       [parent |-> n, side |-> "left"])
    ELSE IF newtid > tid[n]
      THEN InsertPoint(t, tid, newtid, t.node[n].right,
                       [parent |-> n, side |-> "right"])
    ELSE [parent |-> n, side |-> "bug"]

InsertCollides(t, tid, new) ==
    InsertPoint(t, tid, tid[new], t.root,
                [parent |-> Nil, side |-> "root"]).side = "bug"

__insert_request(t, tid, new) ==
    LET at == InsertPoint(t, tid, tid[new], t.root,
                          [parent |-> Nil, side |-> "root"])
        linked == [left |-> Nil, right |-> Nil, parent |-> at.parent,
                   red |-> TRUE]
        t1 == [t EXCEPT !.node[new] = linked]
        t2 == IF at.side = "root" THEN [t1 EXCEPT !.root = new]
              ELSE IF at.side = "left"
                THEN [t1 EXCEPT !.node[at.parent].left = new]
              ELSE [t1 EXCEPT !.node[at.parent].right = new]
    IN  rb_insert_color(t2, new)

RECURSIVE LookupFrom(_, _, _, _)
LookupFrom(t, tid, want, n) ==
    IF n = Nil THEN Nil
    ELSE IF want < tid[n] THEN LookupFrom(t, tid, want, t.node[n].left)
    ELSE IF want > tid[n] THEN LookupFrom(t, tid, want, t.node[n].right)
    ELSE n

__lookup_request(t, tid, want) == LookupFrom(t, tid, want, t.root)

RECURSIVE LookupGeFrom(_, _, _, _)
LookupGeFrom(t, tid, want, n) ==
    IF n = Nil THEN Nil
    ELSE IF want < tid[n]
      THEN IF t.node[n].left = Nil THEN n
           ELSE LookupGeFrom(t, tid, want, t.node[n].left)
    ELSE IF want > tid[n] THEN LookupGeFrom(t, tid, want, t.node[n].right)
    ELSE n

__lookup_request_ge(t, tid, want) == LookupGeFrom(t, tid, want, t.root)

(***************************************************************************)
(* Program constants and the small sets the inputs are drawn from.         *)
(***************************************************************************)
\* -ENOMEM is the only error map_osds and send_request hand back.
ENOMEM == 12

\* Placement groups of the requests; "pgdown" has no up osd.
PGs == {"pg0", "pgdown"}

\* Ordinals ceph_calc_pg_primary can yield: an osd, or -1 for none.
OsdIds == {-1, 0, 1}

\* osdc->osdmap == NULL.
NoMap == [epoch |-> 0, primary |-> [pg \in PGs |-> -1]]

\* The osd map the client holds once mounted.
InitialMap ==
    [epoch |-> 1,
     primary |-> [pg \in PGs |-> IF pg = "pg0" THEN 0 ELSE -1]]

\* What a reply carries: result, data_len and reassert_version.  A failed
\* operation, and a successful one with data.
ReplyPayloads ==
    {[result |-> -5, bytes |-> 0, version |-> 1],
     [result |-> 0, bytes |-> 8, version |-> 2]}

\* The reply of an operation that succeeded.
OkPayloads == {p \in ReplyPayloads : p.result = 0}

\* What the allocator and the layout calculation can answer to one
\* map_osds: all well, kmalloc of the session fails, the read of the
\* session's address faults, or ceph_calc_object_layout returns an error
\* (-ENOMEM or another).
MapOutcomes ==
    {"ok", "kmalloc_fails", "osd_addr_faults", "layout_enomem", "layout_error"}

\* Threads.
NoThread == "none"
Caller(r) == <<"caller", r>>
Handler == "handler"
Syncer == "sync"
Kicker == "kick"

(***************************************************************************)
(* State.                                                                  *)
(***************************************************************************)
VARIABLES
    req,            \* the request records: struct ceph_osd_request
    caller,         \* per request: where its caller thread is, and its rc
    last_tid,       \* osdc->last_tid
    num_requests,   \* osdc->num_requests
    timeout_tid,    \* osdc->timeout_tid
    timeout_work,   \* osdc->timeout_work is scheduled
    requests,       \* osdc->requests, the rbtree
    osds,           \* osdc->osds: the ordinals with a session in the registry
    o_requests,     \* per session: the requests on its o_requests list
    osdmap,         \* osdc->osdmap
    request_mutex,  \* the thread holding osdc->request_mutex
    map_sem,        \* osdc->map_sem: its readers and its writer
    hr,             \* the transport thread running the reply callbacks
    sy,             \* the thread running ceph_osdc_sync
    kk,             \* the thread running kick_requests
    mh,             \* what ceph_osdc_handle_map did with the last message
    lock_waits,     \* <<held, wanted>>: a thread waited for wanted holding held
    nr,             \* the message ceph_osdc_new_request built last
    wire,           \* what the client handed to the transport and the monitor
    signals,        \* per request: the completions and callbacks fired
    reg_order,      \* the requests in the order register_request took them
    crashed         \* a thread hit a NULL dereference or a BUG()

vars == <<req, caller, last_tid, num_requests, timeout_tid, timeout_work,
          requests, osds, o_requests, osdmap, request_mutex, map_sem,
          hr, sy, kk, mh, lock_waits, nr, wire, signals, reg_order,
          crashed>>

\* struct ceph_osd_request as ceph_osdc_new_request leaves it (kzalloc'ed,
\* r_ref 1), for a record not built yet: r_ref 0.
NoRequest ==
    [r_ref |-> 0, r_tid |-> 0, r_flags |-> {}, r_pg |-> "pg0",
     r_callback |-> FALSE, r_safe_callback |-> FALSE,
     r_got_reply |-> FALSE, r_aborted |-> FALSE, r_resend |-> FALSE,
     r_prepared_pages |-> FALSE, r_result |-> 0, r_reassert_version |-> 0,
     r_osd |-> NoOsd, r_reply |-> Nil, r_completion |-> 0,
     r_safe_completion |-> 0, msg_pages |-> FALSE]

Tids == [r \in Reqs |-> req[r].r_tid]

InIndex(r) == r \in TreeNodes(requests)

(***************************************************************************)
(* The functions of the client work on a store S: the fields of the        *)
(* client and of its requests that they read and write, plus S.fault,      *)
(* set when the function stopped at a NULL dereference or a BUG().         *)
(***************************************************************************)
Store ==
    [req |-> req, last_tid |-> last_tid, num_requests |-> num_requests,
     timeout_tid |-> timeout_tid, timeout_work |-> timeout_work,
     requests |-> requests, osds |-> osds, o_requests |-> o_requests,
     osdmap |-> osdmap, wire |-> wire, signals |-> signals,
     reg_order |-> reg_order, fault |-> FALSE]

\* The store written back; S.fault is for the calling thread to act on.
Commit(S) ==
    /\ req' = S.req
    /\ last_tid' = S.last_tid
    /\ num_requests' = S.num_requests
    /\ timeout_tid' = S.timeout_tid
    /\ timeout_work' = S.timeout_work
    /\ requests' = S.requests
    /\ osds' = S.osds
    /\ o_requests' = S.o_requests
    /\ osdmap' = S.osdmap
    /\ wire' = S.wire
    /\ signals' = S.signals
    /\ reg_order' = S.reg_order

STids(S) == [r \in Reqs |-> S.req[r].r_tid]

ceph_osdc_get_request(S, r) ==
    [S EXCEPT !.req[r].r_ref = @ + 1]

\* The last put frees the record: its messages are put (the pinned reply
\* too) and its fields are gone; r_tid is kept only to name the record.
ceph_osdc_put_request(S, r) ==
    IF S.req[r].r_ref <= 0 THEN [S EXCEPT !.fault = TRUE]
    ELSE IF S.req[r].r_ref = 1
      THEN [S EXCEPT !.req[r] = [NoRequest EXCEPT !.r_tid = S.req[r].r_tid],
                     !.wire.reply_ref[r] =
                        IF S.req[r].r_reply # Nil THEN @ - 1 ELSE @]
    ELSE [S EXCEPT !.req[r].r_ref = @ - 1]

\* register_request with the tid taken before the increment
\* (osdc->last_tid++ for ++osdc->last_tid).
register_request_post_increment(S, r) ==
    LET tid == S.last_tid
        S1 == [S EXCEPT !.last_tid = tid + 1, !.req[r].r_tid = tid]
    IN  IF InsertCollides(S1.requests, STids(S1), r)
        THEN [S1 EXCEPT !.fault = TRUE]
        ELSE [S1 EXCEPT !.requests = __insert_request(@, STids(S1), r),
                        !.req[r].r_ref = @ + 1,
                        !.num_requests = @ + 1,
                        !.reg_order = Append(@, r)]

\* register_request without the ceph_osdc_get_request of line 366.
register_request_no_get(S, r) ==
    LET tid == S.last_tid + 1
        S1 == [S EXCEPT !.last_tid = tid, !.req[r].r_tid = tid]
    IN  IF InsertCollides(S1.requests, STids(S1), r)
        THEN [S1 EXCEPT !.fault = TRUE]
        ELSE
          LET S2 == [S1 EXCEPT
                       !.requests = __insert_request(@, STids(S1), r),
                       !.num_requests = @ + 1,
                       !.reg_order = Append(@, r)]
          IN  IF S2.num_requests = 1
              THEN [S2 EXCEPT !.timeout_tid = tid, !.timeout_work = TRUE]
              ELSE S2

register_request(S, r) ==
    LET tid == S.last_tid + 1
        S1 == [S EXCEPT !.last_tid = tid, !.req[r].r_tid = tid]
    IN  IF InsertCollides(S1.requests, STids(S1), r)
        THEN [S1 EXCEPT !.fault = TRUE]
        ELSE
          LET S2 == [S1 EXCEPT
                       !.requests = __insert_request(@, STids(S1), r),
                       !.req[r].r_ref = @ + 1,
                       !.num_requests = @ + 1,
                       !.reg_order = Append(@, r)]
          IN  IF S2.num_requests = 1
              THEN [S2 EXCEPT !.timeout_tid = tid, !.timeout_work = TRUE]
              ELSE S2

\* DetachFromOsd without the destroy_osd of lines 393-394 and 451-452.
DetachFromOsd_keeps_session(S, r) ==
    LET o == S.req[r].r_osd IN
    [S EXCEPT !.o_requests[o] = @ \ {r}, !.req[r].r_osd = NoOsd]

\* DetachFromOsd without the req->r_osd = NULL of lines 395 and 453.
DetachFromOsd_leaves_r_osd(S, r) ==
    LET o  == S.req[r].r_osd
        S1 == [S EXCEPT !.o_requests[o] = @ \ {r}]
    IN  IF S1.o_requests[o] = {} THEN [S1 EXCEPT !.osds = @ \ {o}] ELSE S1

\* list_del_init(&req->r_osd_item), and destroy_osd when that empties the
\* session's list; then req->r_osd = NULL.
DetachFromOsd(S, r) ==
    LET o  == S.req[r].r_osd
        S1 == [S EXCEPT !.o_requests[o] = @ \ {r}, !.req[r].r_osd = NoOsd]
    IN  IF S1.o_requests[o] = {} THEN [S1 EXCEPT !.osds = @ \ {o}] ELSE S1

\* lines 389-390: rb_erase(&req->r_node, &osdc->requests); num_requests--.
UnlinkRequest(S, r) ==
    [S EXCEPT !.requests = rb_erase(@, r), !.num_requests = @ - 1]

\* lines 402-414: the request that timed the client is gone; the timeout
\* moves to the first request of the index, or is cancelled.
RescheduleTimeout(S, r) ==
    IF S.fault \/ S.req[r].r_tid # S.timeout_tid THEN S
    ELSE IF S.num_requests = 0
      THEN [S EXCEPT !.timeout_tid = 0, !.timeout_work = FALSE]
    ELSE [S EXCEPT !.timeout_tid = S.req[rb_first(S.requests)].r_tid,
                   !.timeout_work = TRUE]

\* Called under request_mutex.  With r_osd NULL, lines 392-393 dereference
\* a NULL pointer after the erase and the decrement.
__unregister_request(S, r) ==
    IF S.req[r].r_osd = NoOsd
    THEN [UnlinkRequest(S, r) EXCEPT !.fault = TRUE]
    ELSE RescheduleTimeout(
           ceph_osdc_put_request(DetachFromOsd(UnlinkRequest(S, r), r), r), r)

ceph_calc_pg_primary(map, pg) == map.primary[pg]

\* lines 456-465 for the primary o, the request detached: [S, ret].  A
\* session made for o = -1 has init_osd read osdmap->osd_addr[-1] (line
\* 297), before the array: the read faults or yields what lies there.
AttachToOsd(S, r, o, outcome) ==
    IF o \in S.osds
    THEN [S |-> [S EXCEPT !.o_requests[o] = @ \cup {r}, !.req[r].r_osd = o],
          ret |-> 1]
    ELSE IF outcome = "kmalloc_fails" THEN [S |-> S, ret |-> -ENOMEM]
    ELSE IF o < 0 /\ outcome = "osd_addr_faults"
      THEN [S |-> [S EXCEPT !.fault = TRUE], ret |-> 1]
    ELSE [S |-> [S EXCEPT !.osds = @ \cup {o},
                          !.o_requests[o] = @ \cup {r},
                          !.req[r].r_osd = o],
          ret |-> 1]

\* [S, ret]: ret 0 unchanged, 1 changed, negative an error.
map_osds(S, r, outcome) ==
    LET o == ceph_calc_pg_primary(S.osdmap, S.req[r].r_pg) IN
    IF outcome = "layout_enomem" THEN [S |-> S, ret |-> -ENOMEM]
    ELSE IF outcome = "layout_error" THEN [S |-> S, ret |-> -22]
    ELSE IF S.req[r].r_osd # NoOsd /\ S.req[r].r_osd = o
      THEN [S |-> S, ret |-> 0]
    ELSE AttachToOsd(IF S.req[r].r_osd # NoOsd THEN DetachFromOsd(S, r) ELSE S,
                     r, o, outcome)

\* ceph_con_send(req->r_osd->o_con, req->r_request), as the wire sees it.
ceph_con_send(S, r) ==
    [S EXCEPT !.wire.sent[r] = TRUE,
              !.wire.last[r] = [osd |-> S.req[r].r_osd,
                                retry |-> "RETRY" \in S.req[r].r_flags,
                                epoch |-> S.osdmap.epoch],
              !.wire.sent_aborted[r] = @ \/ S.req[r].r_aborted]

ceph_monc_request_osdmap(S, epoch) ==
    [S EXCEPT !.wire.monc_want = epoch]

\* lines 477-499 on what map_osds answered: [S, ret].
SendMapped(m, r) ==
    IF m.S.fault \/ m.ret = -ENOMEM THEN m
    ELSE IF m.S.req[r].r_osd = NoOsd
      THEN [S |-> ceph_monc_request_osdmap(m.S, m.S.osdmap.epoch + 1),
            ret |-> 0]
    ELSE [S |-> ceph_con_send(m.S, r), ret |-> 0]

\* [S, ret].
send_request(S, r, outcome) == SendMapped(map_osds(S, r, outcome), r)

(***************************************************************************)
(* Locks, and what a NULL dereference or a BUG() does: the kernel kills    *)
(* the faulting thread where it stands, with the locks it holds (pc        *)
(* "oops"); with panic_on_oops the machine halts in that same state.       *)
(***************************************************************************)
Oops == crashed' = TRUE

\* The locks a function takes and holds together, in the order of its
\* calls: each one is waited for with the earlier ones held.
LockWaits(locks) ==
    {<<locks[p[1]], locks[p[2]]>> :
       p \in {q \in (1 .. Len(locks)) \X (1 .. Len(locks)) : q[1] < q[2]}}

\* ceph_osdc_start_request with the two lock calls of lines 913-914
\* exchanged.
StartLocks_mutex_first == <<"request_mutex", "map_sem">>

\* lines 913-914: down_read(&osdc->map_sem); mutex_lock(&osdc->request_mutex).
StartLocks == <<"map_sem", "request_mutex">>

\* lines 850 and 687, 720: ceph_osdc_handle_reset takes map_sem for read,
\* kick_requests takes request_mutex under it.
KickLocks == <<"map_sem", "request_mutex">>

\* line 760: down_write(&osdc->map_sem); kick_requests, as compiled, takes
\* no lock under it.
MapLocks == <<"map_sem">>

\* lines 968-970 and 972-974: a page_mutex is taken with no lock held and
\* released before the next one is taken.
AbortLocks == <<"page_mutex">>

MutexFree == request_mutex = NoThread

CallerAt(r, pc) == caller[r].pc = pc

(***************************************************************************)
(* Caller threads: one per request record.                                 *)
(***************************************************************************)
\* ceph_osdc_new_request as readpages and writepages call it, or a caller
\* that sets r_callback / r_safe_callback before starting the request.
ceph_osdc_new_request(r, write, pg, cb, safe_cb) ==
    [NoRequest EXCEPT
       !.r_ref = 1,
       !.r_flags = IF write THEN {"WRITE", "ONDISK"} ELSE {"READ"},
       !.r_pg = pg,
       !.r_callback = cb,
       !.r_safe_callback = safe_cb]

\* The requests the callers build: the synchronous read and write of
\* ceph_osdc_readpages and ceph_osdc_writepages (completed through
\* r_completion), a write completed through r_callback and r_safe_callback,
\* and a read of a placement group that has no up osd.
Kinds ==
    {[write |-> FALSE, pg |-> "pg0", cb |-> FALSE],
     [write |-> TRUE, pg |-> "pg0", cb |-> FALSE],
     [write |-> TRUE, pg |-> "pg0", cb |-> TRUE],
     [write |-> FALSE, pg |-> "pgdown", cb |-> FALSE]}

\* The caller builds its request and calls ceph_osdc_start_request, lines
\* 908-911: attach the pages, register_request (which takes and drops
\* request_mutex).  Records are built in their order.
StartRegistered(r, S) ==
    /\ Commit(S)
    /\ crashed' = (crashed \/ S.fault)
    /\ request_mutex' = IF S.fault THEN Caller(r) ELSE NoThread
    /\ caller' = [caller EXCEPT
         ![r].pc = IF S.fault THEN "oops" ELSE "registered"]

BuiltStore(r, k) ==
    [Store EXCEPT !.req[r] =
       [ceph_osdc_new_request(r, k.write, k.pg, k.cb, k.cb /\ k.write)
          EXCEPT !.msg_pages = TRUE]]

StartRegisterAs(r, kinds) ==
    /\ CallerAt(r, "unbuilt")
    /\ \A q \in Reqs : q < r => ~CallerAt(q, "unbuilt")
    /\ MutexFree
    /\ \E k \in kinds : StartRegistered(r, register_request(BuiltStore(r, k), r))
    /\ UNCHANGED <<map_sem, hr, sy, kk, mh, lock_waits, nr>>

StartRegister(r) == StartRegisterAs(r, Kinds)

\* The synchronous read and write of a placement group with a primary.
SyncKinds == {k \in Kinds : k.pg = "pg0" /\ ~k.cb}

\* lines 916-924 on what send_request answered: [S, rc].
StartSent(s, r, nofail) ==
    IF s.S.fault \/ s.ret = 0 THEN [S |-> s.S, rc |-> 0]
    ELSE IF nofail THEN [S |-> [s.S EXCEPT !.req[r].r_resend = TRUE], rc |-> 0]
    ELSE [S |-> __unregister_request(s.S, r), rc |-> s.ret]

\* lines 915-925 on the store: [S, rc].
StartSendBody(S, r, nofail, outcome) ==
    StartSent(send_request(S, r, outcome), r, nofail)

\* lines 926-928: unlock, up_read, return rc; a fault inside the locked
\* section stops the thread there, holding the mutex and map_sem.
StartReturn(r, b) ==
    /\ Commit(b.S)
    /\ IF b.S.fault
       THEN /\ Oops
            /\ request_mutex' = Caller(r)
            /\ map_sem' = [map_sem EXCEPT !.readers = @ \cup {Caller(r)}]
            /\ caller' = [caller EXCEPT ![r].pc = "oops"]
       ELSE /\ UNCHANGED <<crashed, request_mutex, map_sem>>
            /\ caller' = [caller EXCEPT
                 ![r].pc = IF b.rc = 0 THEN "started" ELSE "start_failed",
                 ![r].rc = b.rc]

\* lines 913-928: down_read(&osdc->map_sem) and mutex_lock, the locked
\* section, and the two unlocks.  The step starts when both locks can be
\* taken.
StartSendWith(r, outcomes, nofails) ==
    /\ CallerAt(r, "registered")
    /\ map_sem.writer = NoThread
    /\ MutexFree
    /\ \E outcome \in outcomes, nofail \in nofails :
         StartReturn(r, StartSendBody(Store, r, nofail, outcome))
    /\ lock_waits' = lock_waits \cup LockWaits(StartLocks)
    /\ UNCHANGED <<hr, sy, kk, mh, nr>>

StartSend(r) == StartSendWith(r, MapOutcomes, BOOLEAN)

\* ceph_osdc_wait_request, woken by complete(&req->r_completion).
WaitDone(r) ==
    /\ CallerAt(r, "started")
    /\ req[r].r_completion > 0
    /\ req' = [req EXCEPT ![r].r_completion = @ - 1]
    /\ caller' = [caller EXCEPT ![r].pc = "returned",
                                ![r].rc = req[r].r_result]
    /\ UNCHANGED <<last_tid, num_requests, timeout_tid, timeout_work,
                   requests, osds, o_requests, osdmap, request_mutex,
                   map_sem, hr, sy, kk,
                   mh, lock_waits, nr, wire, signals, reg_order, crashed>>

\* ceph_osdc_abort_request, line 966: a caller interrupted in its wait, or
\* one that aborts the request it started.
AbortSetFlag(r) ==
    /\ CallerAt(r, "started")
    /\ req[r].r_completion = 0
    /\ req' = [req EXCEPT ![r].r_aborted = TRUE]
    /\ caller' = [caller EXCEPT ![r].pc = "abort_pages", ![r].rc = -512]
    /\ UNCHANGED <<last_tid, num_requests, timeout_tid, timeout_work,
                   requests, osds, o_requests, osdmap, request_mutex,
                   map_sem, hr, sy, kk,
                   mh, lock_waits, nr, wire, signals, reg_order, crashed>>

\* lines 967-971: revoke the pages of the request message, read r_reply.
AbortRevokePages(r) ==
    /\ CallerAt(r, "abort_pages")
    /\ req' = [req EXCEPT ![r].msg_pages = FALSE]
    /\ caller' = [caller EXCEPT
         ![r].pc = IF req[r].r_reply # Nil THEN "abort_reply" ELSE "returned"]
    /\ lock_waits' = lock_waits \cup LockWaits(AbortLocks)
    /\ UNCHANGED <<last_tid, num_requests, timeout_tid, timeout_work,
                   requests, osds, o_requests, osdmap, request_mutex,
                   map_sem, hr, sy, kk,
                   mh, nr, wire, signals, reg_order, crashed>>

\* lines 972-976: revoke the pages of the pinned reply and put it.  The
\* caller holds no lock and r_reply is read at each use: when the reply
\* handler has put the message and cleared r_reply since the test of line
\* 971, a use that reads the field again dereferences NULL, and one that
\* goes by the pointer read before puts the message a second time.
AbortPutReply(r) ==
    /\ CallerAt(r, "abort_reply")
    /\ \/ /\ req[r].r_reply = Nil
          /\ Oops
          /\ caller' = [caller EXCEPT ![r].pc = "oops"]
          /\ UNCHANGED <<req, wire>>
       \/ /\ req' = [req EXCEPT ![r].r_reply = Nil]
          /\ wire' = [wire EXCEPT !.reply_ref[r] = @ - 1]
          /\ caller' = [caller EXCEPT ![r].pc = "returned"]
          /\ UNCHANGED crashed
    /\ lock_waits' = lock_waits \cup LockWaits(AbortLocks)
    /\ UNCHANGED <<last_tid, num_requests, timeout_tid, timeout_work,
                   requests, osds, o_requests, osdmap, request_mutex,
                   map_sem, hr, sy, kk,
                   mh, nr, signals, reg_order>>

\* The caller's own ceph_osdc_put_request: after the wait or the failed
\* start, or at once for a request completed through its callback.
CallerMayPut(r) ==
    \/ CallerAt(r, "returned")
    \/ CallerAt(r, "start_failed")
    \/ CallerAt(r, "started") /\ req[r].r_callback

CallerPut(r) ==
    /\ CallerMayPut(r)
    /\ LET S == ceph_osdc_put_request(Store, r)
       IN  /\ Commit(S)
           /\ IF S.fault
              THEN /\ Oops
                   /\ caller' = [caller EXCEPT ![r].pc = "oops"]
              ELSE /\ UNCHANGED crashed
                   /\ caller' = [caller EXCEPT ![r].pc = "done"]
    /\ UNCHANGED <<request_mutex, map_sem, hr, sy, kk, mh, lock_waits, nr>>

(***************************************************************************)
(* The transport thread: for a reply read off the wire it calls            *)
(* ceph_osdc_prepare_pages (when the reply carries data) and then          *)
(* ceph_osdc_handle_reply.  The osd answers only requests it was sent, and *)
(* echoes the WRITE flag of the request.                                   *)
(***************************************************************************)
NoMsg == [tid |-> 0, flags |-> {}, result |-> 0, bytes |-> 0, version |-> 0]

HrIdle == [pc |-> "idle", msg |-> NoMsg, req |-> Nil, path |-> "none",
           late |-> FALSE]

OsdReply(r, ondisk, p) ==
    [tid |-> req[r].r_tid,
     flags |-> (req[r].r_flags \cap {"WRITE"})
                 \cup (IF ondisk THEN {"ONDISK"} ELSE {"ACK"}),
     result |-> p.result, bytes |-> p.bytes, version |-> p.version]

\* The replies that can arrive now, with the payloads P.
RepliesWith(P) ==
    {OsdReply(r, ondisk, p) :
       r \in {q \in Reqs : wire.sent[q]}, ondisk \in BOOLEAN, p \in P}

Replies == RepliesWith(ReplyPayloads)

\* PinReply without the test of r_prepared_pages (line 885).
PinReply_no_prepared_test(S, r, fits) ==
    IF fits /\ ~S.req[r].r_aborted
    THEN [S EXCEPT !.req[r].r_reply = 1,
                   !.wire.reply_ref[r] = @ + 1,
                   !.wire.prepared[r] = [n |-> @.n + 1, fits |-> fits],
                   !.req[r].r_prepared_pages = TRUE]
    ELSE S

\* ceph_osdc_prepare_pages on the store, lines 878-893, for the request r
\* the lookup found.  fits is req->r_num_pages >= want.  wire.prepared
\* counts the calls that returned 0 and gave the request's pages to the
\* message, and keeps the fits of the last one.
PinReply(S, r, fits) ==
    IF fits /\ ~S.req[r].r_prepared_pages /\ ~S.req[r].r_aborted
    THEN [S EXCEPT !.req[r].r_reply = 1,
                   !.wire.reply_ref[r] = @ + 1,
                   !.wire.prepared[r] = [n |-> @.n + 1, fits |-> fits],
                   !.req[r].r_prepared_pages = TRUE]
    ELSE S

ceph_osdc_prepare_pages(S, m, fits) ==
    LET r == __lookup_request(S.requests, STids(S), m.tid) IN
    IF r = Nil THEN S ELSE PinReply(S, r, fits)

\* The transport reads a reply with data off the wire: lines 877-895 are
\* one step, under request_mutex.
PreparePages ==
    /\ hr.pc = "idle"
    /\ MutexFree
    /\ \E m \in Replies, fits \in BOOLEAN :
         Commit(ceph_osdc_prepare_pages(Store, m, fits))
    /\ UNCHANGED <<caller, request_mutex, map_sem, hr, sy, kk,
                   mh, lock_waits, nr, crashed>>

\* ceph_osdc_handle_reply, lines 584-591: a front that is too short or of
\* the wrong length is logged and dropped.
HandleReplyBad ==
    /\ hr.pc = "idle"
    /\ UNCHANGED vars

\* RecordReply taking the result of every reply (without the test of line
\* 619).
RecordReply_every_reply(S, r, m) ==
    [S EXCEPT !.req[r].r_result = IF m.result = 0 THEN m.bytes ELSE m.result,
              !.req[r].r_reassert_version = m.version,
              !.req[r].r_got_reply = TRUE]

\* RecordReply without line 632: r_got_reply stays clear.
RecordReply_sets_no_flag(S, r, m) ==
    IF S.req[r].r_got_reply THEN S
    ELSE [S EXCEPT !.req[r].r_result =
                      IF m.result = 0 THEN m.bytes ELSE m.result,
                   !.req[r].r_reassert_version = m.version]

\* lines 619-632: the first reply sets the result.
RecordReply(S, r, m) ==
    IF S.req[r].r_got_reply THEN S
    ELSE [S EXCEPT !.req[r].r_result =
                      IF m.result = 0 THEN m.bytes ELSE m.result,
                   !.req[r].r_reassert_version = m.version,
                   !.req[r].r_got_reply = TRUE]

\* The body without the r_aborted test of line 615.
HandleReplyBody_no_aborted_test(S, r, m) ==
    IF S.req[r].r_got_reply /\ "ONDISK" \notin m.flags
    THEN [S |-> S, path |-> "dup"]
    ELSE IF "ONDISK" \in m.flags \/ "WRITE" \notin m.flags
      THEN [S |-> __unregister_request(RecordReply(S, r, m), r),
            path |-> "signal"]
    ELSE [S |-> RecordReply(S, r, m), path |-> "signal"]

\* The body without the duplicate ack test of line 633.
HandleReplyBody_no_dup_test(S, r, m) ==
    IF S.req[r].r_aborted THEN [S |-> S, path |-> "aborted"]
    ELSE IF "ONDISK" \in m.flags \/ "WRITE" \notin m.flags
      THEN [S |-> __unregister_request(RecordReply(S, r, m), r),
            path |-> "signal"]
    ELSE [S |-> RecordReply(S, r, m), path |-> "signal"]

\* The body unregistering on every reply it signals, without the test of
\* lines 641-642.
HandleReplyBody_always_unregister(S, r, m) ==
    IF S.req[r].r_aborted THEN [S |-> S, path |-> "aborted"]
    ELSE IF S.req[r].r_got_reply /\ "ONDISK" \notin m.flags
      THEN [S |-> S, path |-> "dup"]
    ELSE [S |-> __unregister_request(RecordReply(S, r, m), r),
          path |-> "signal"]

\* lines 615-643 on the store: [S, path].  path "aborted" and "dup" are the
\* two goto done; "signal" goes on to the callbacks.
HandleReplyBody(S, r, m) ==
    IF S.req[r].r_aborted THEN [S |-> S, path |-> "aborted"]
    ELSE IF S.req[r].r_got_reply /\ "ONDISK" \notin m.flags
      THEN [S |-> S, path |-> "dup"]
    ELSE IF "ONDISK" \in m.flags \/ "WRITE" \notin m.flags
      THEN [S |-> __unregister_request(RecordReply(S, r, m), r),
            path |-> "signal"]
    ELSE [S |-> RecordReply(S, r, m), path |-> "signal"]

\* lines 605-613: the reply pinned by prepare_pages is put.
DropPinnedReply(S, r) ==
    IF S.req[r].r_reply = Nil THEN S
    ELSE [S EXCEPT !.req[r].r_reply = Nil, !.wire.reply_ref[r] = @ - 1]

\* lines 602-643 on the store, for the request r the lookup found.
HandleReplyLocked(S, r, m) ==
    HandleReplyBody(DropPinnedReply(ceph_osdc_get_request(S, r), r), r, m)

\* Where the handler stands after the locked section: a fault stops it
\* with the mutex held; the two goto done leave without mutex_unlock.
HandleReplyLeave(r, m, b) ==
    /\ Commit(b.S)
    /\ hr' = [pc |-> IF b.S.fault THEN "oops"
                     ELSE IF b.path = "signal" THEN "hr_cb"
                     ELSE "hr_done",
              msg |-> m, req |-> r, path |-> b.path,
              late |-> req[r].r_aborted]
    /\ crashed' = (crashed \/ b.S.fault)
    /\ request_mutex' =
         IF b.S.fault \/ b.path # "signal" THEN Handler ELSE NoThread
    /\ UNCHANGED <<caller, map_sem, sy, kk, mh, lock_waits, nr>>

\* ceph_osdc_handle_reply from mutex_lock (line 595) to mutex_unlock (lines
\* 599, 645) or to the goto done that skips it (lines 617, 635): one step,
\* as the thread holds request_mutex throughout.  late records that
\* r_aborted was already set when the reply was handled.
HandleReplyFor(m, r) ==
    IF r = Nil THEN UNCHANGED vars
    ELSE HandleReplyLeave(r, m, HandleReplyLocked(Store, r, m))

HandleReplyAmong(M) ==
    /\ hr.pc = "idle"
    /\ MutexFree
    /\ \E m \in M :
         HandleReplyFor(m, __lookup_request(requests, Tids, m.tid))

HandleReply == HandleReplyAmong(Replies)

\* lines 647-650: the per-request callback, else complete(&r_completion).
FirstResponseSignal(S, r) ==
    LET S1 == [S EXCEPT !.signals[r].first = @ + 1]
    IN  IF S.req[r].r_callback THEN S1
        ELSE [S1 EXCEPT !.req[r].r_completion = @ + 1]

\* lines 653-655: the safe callback if set, and complete(&r_safe_completion).
SafeSignal(S, r) ==
    [S EXCEPT !.signals[r].safe = @ + 1,
              !.req[r].r_safe_completion = @ + 1]

HandleReplyCallback ==
    /\ hr.pc = "hr_cb"
    /\ Commit(FirstResponseSignal(Store, hr.req))
    /\ hr' = [hr EXCEPT
         !.pc = IF "ONDISK" \in hr.msg.flags THEN "hr_safe" ELSE "hr_done"]
    /\ UNCHANGED <<caller, request_mutex, map_sem, sy, kk,
                   mh, lock_waits, nr, crashed>>

HandleReplySafe ==
    /\ hr.pc = "hr_safe"
    /\ Commit(SafeSignal(Store, hr.req))
    /\ hr' = [hr EXCEPT !.pc = "hr_done"]
    /\ UNCHANGED <<caller, request_mutex, map_sem, sy, kk,
                   mh, lock_waits, nr, crashed>>

\* lines 658-660: done: ceph_osdc_put_request(req); return.
HandleReplyDone ==
    /\ hr.pc = "hr_done"
    /\ LET S == ceph_osdc_put_request(Store, hr.req) IN
       /\ Commit(S)
       /\ IF S.fault
          THEN /\ Oops
               /\ hr' = [hr EXCEPT !.pc = "oops"]
          ELSE /\ UNCHANGED crashed
               /\ hr' = HrIdle
    /\ UNCHANGED <<caller, request_mutex, map_sem, sy, kk, mh, lock_waits, nr>>

(***************************************************************************)
(* The life of the requests: callers and the transport thread.             *)
(***************************************************************************)
SyIdle == [pc |-> "idle", last_tid |-> 0, next_tid |-> 0, req |-> Nil,
           entry |-> {}]

KkIdle == [pc |-> "idle", req |-> Nil, who |-> NoOsd, needmap |-> FALSE]

\* No request message built yet.
NoOps == [off |-> 0, plen |-> 0, opcode |-> "READ", truncate_seq |-> 0,
          truncate_size |-> 0, object_size |-> 1, len |-> 0, ops |-> <<>>]

\* No map message handled yet.
MhIdle == [path |-> "none", before |-> InitialMap, incs |-> <<>>,
           full |-> 0, fullidx |-> 0, nfulls |-> 0]

\* The client as ceph_osdc_init leaves it, holding the osd map given.
InitWith(map) ==
    /\ req = [r \in Reqs |-> NoRequest]
    /\ caller = [r \in Reqs |-> [pc |-> "unbuilt", rc |-> 0]]
    /\ last_tid = 0
    /\ num_requests = 0
    /\ timeout_tid = 0
    /\ timeout_work = FALSE
    /\ requests = RB_ROOT
    /\ osds = {}
    /\ o_requests = [o \in OsdIds |-> {}]
    /\ osdmap = map
    /\ request_mutex = NoThread
    /\ map_sem = [readers |-> {}, writer |-> NoThread]
    /\ hr = HrIdle
    /\ sy = SyIdle
    /\ kk = KkIdle
    /\ mh = [MhIdle EXCEPT !.before = map]
    /\ lock_waits = {}
    /\ nr = NoOps
    /\ wire = [sent |-> [r \in Reqs |-> FALSE],
               last |-> [r \in Reqs |-> [osd |-> NoOsd, retry |-> FALSE,
                                         epoch |-> 0]],
               sent_aborted |-> [r \in Reqs |-> FALSE],
               reply_ref |-> [r \in Reqs |-> 0],
               prepared |-> [r \in Reqs |-> [n |-> 0, fits |-> TRUE]],
               monc_want |-> 0,
               monc_got |-> 0]
    /\ signals = [r \in Reqs |-> [first |-> 0, safe |-> 0]]
    /\ reg_order = <<>>
    /\ crashed = FALSE

\* The mounted client: it has received its first osd map.
Init == InitWith(InitialMap)

\* The client before any map message: line 1020, osdc->osdmap = NULL.
InitNoMap == InitWith(NoMap)

(***************************************************************************)
(* ceph_osdc_sync, lines 983-1011.  The thread holds request_mutex from    *)
(* line 988 to the unlock of line 1002 or 1009, and again from line 1006:  *)
(* each locked stretch is one step.  sy.entry records the writes that were *)
(* in the index, with a tid up to the snapshot, when sync entered.         *)
(***************************************************************************)
\* lines 990-999: the scans up to the next write to wait for, or to the
\* break: [req, next_tid].
RECURSIVE SyncScan(_, _, _)
SyncScan(S, next_tid, last) ==
    LET r == __lookup_request_ge(S.requests, STids(S), next_tid) IN
    IF r = Nil \/ S.req[r].r_tid > last THEN [req |-> Nil, next_tid |-> next_tid]
    ELSE IF "WRITE" \notin S.req[r].r_flags
      THEN SyncScan(S, S.req[r].r_tid + 1, last)
    ELSE [req |-> r, next_tid |-> S.req[r].r_tid + 1]

\* lines 1001-1002, or 1009: take the reference and unlock for the wait, or
\* unlock and return.
SyncLeave(S, base, found) ==
    /\ Commit(IF found.req = Nil THEN S
              ELSE ceph_osdc_get_request(S, found.req))
    /\ sy' = [base EXCEPT
         !.pc = IF found.req = Nil THEN "sy_done" ELSE "sy_wait",
         !.next_tid = found.next_tid,
         !.req = found.req]
    /\ request_mutex' = NoThread
    /\ UNCHANGED crashed

EntryWrites ==
    {r \in TreeNodes(requests) :
       "WRITE" \in req[r].r_flags /\ req[r].r_tid <= last_tid}

\* lines 988-1002.
SyncEnter ==
    /\ sy.pc = "idle"
    /\ MutexFree
    /\ SyncLeave(Store,
                 [sy EXCEPT !.last_tid = last_tid, !.entry = EntryWrites],
                 SyncScan(Store, 0, last_tid))
    /\ UNCHANGED <<caller, map_sem, hr, kk, mh, lock_waits, nr>>

\* line 1005: wait_for_completion(&req->r_safe_completion).
SyncWake ==
    /\ sy.pc = "sy_wait"
    /\ req[sy.req].r_safe_completion > 0
    /\ req' = [req EXCEPT ![sy.req].r_safe_completion = @ - 1]
    /\ sy' = [sy EXCEPT !.pc = "sy_relock"]
    /\ UNCHANGED <<caller, last_tid, num_requests, timeout_tid, timeout_work,
                   requests, osds, o_requests, osdmap, request_mutex,
                   map_sem, hr, kk,
                   mh, lock_waits, nr, wire, signals, reg_order, crashed>>

\* lines 1007-1009 and 990-1002 on the store after the put.
SyncContinue(S) ==
    IF S.fault
    THEN /\ Commit(S)
         /\ Oops
         /\ request_mutex' = Syncer
         /\ sy' = [sy EXCEPT !.pc = "oops"]
    ELSE SyncLeave(S, sy, SyncScan(S, sy.next_tid, sy.last_tid))

\* line 1006: mutex_lock, then the put and the next scans.
SyncRelock ==
    /\ sy.pc = "sy_relock"
    /\ MutexFree
    /\ SyncContinue(ceph_osdc_put_request(Store, sy.req))
    /\ UNCHANGED <<caller, map_sem, hr, kk, mh, lock_waits, nr>>

SyncStep == SyncEnter \/ SyncWake \/ SyncRelock

(***************************************************************************)
(* ceph_osdc_handle_reset and the body of kick_requests, lines 682-728.    *)
(* In this tree the body stands between #if 0 and #endif (lines 681, 729): *)
(* the actions below are the body as it is written, and only SpecKick      *)
(* runs them.  r_last_osd and r_last_osd_addr, which the request record    *)
(* does not have, are read as the ordinal of the session the request is    *)
(* routed to.  The thread holds request_mutex from line 687 or 720 to the  *)
(* unlock of line 711 or 722: each locked stretch is one step.             *)
(***************************************************************************)
RECURSIVE ClimbFromRight(_, _)
ClimbFromRight(t, n) ==
    LET p == t.node[n].parent IN
    IF p # Nil /\ t.node[p].right = n THEN ClimbFromRight(t, p) ELSE p

rb_next(t, n) ==
    IF t.node[n].right # Nil THEN Leftmost(t, t.node[n].right)
    ELSE ClimbFromRight(t, n)

\* lines 688-705 from node p on: [S, req, needmap], req the request to
\* kick or Nil at the end of the index.
RECURSIVE KickWalk(_, _, _, _, _)

KickMapped(m, p, who, needmap, outcome) ==
    IF m.S.fault THEN [S |-> m.S, req |-> Nil, needmap |-> needmap]
    ELSE IF m.ret = 0
    THEN KickWalk(m.S, rb_next(m.S.requests, p), who, needmap, outcome)
    ELSE IF m.S.req[p].r_osd < 0
      THEN KickWalk(m.S, rb_next(m.S.requests, p), who, TRUE, outcome)
    ELSE [S |-> m.S, req |-> p, needmap |-> needmap]

KickWalk(S, p, who, needmap, outcome) ==
    IF p = Nil THEN [S |-> S, req |-> Nil, needmap |-> needmap]
    ELSE IF S.req[p].r_resend \/ S.req[p].r_osd = who
      THEN [S |-> S, req |-> p, needmap |-> needmap]
    ELSE KickMapped(map_osds(S, p, outcome), p, who, needmap, outcome)

\* lines 710-711, or 722-727 and the up_read of line 852.
KickLeave(w, who) ==
    /\ Commit(IF w.req # Nil THEN ceph_osdc_get_request(w.S, w.req)
              ELSE IF w.needmap
                THEN ceph_monc_request_osdmap(w.S, w.S.osdmap.epoch + 1)
              ELSE w.S)
    /\ kk' = [kk EXCEPT !.pc = IF w.S.fault THEN "oops"
                              ELSE IF w.req = Nil THEN "kk_done"
                              ELSE "kk_kick",
                        !.req = w.req,
                        !.who = who,
                        !.needmap = w.needmap]
    /\ map_sem' = [map_sem EXCEPT !.readers =
         IF w.req = Nil /\ ~w.S.fault THEN @ \ {Kicker} ELSE @ \cup {Kicker}]
    /\ request_mutex' = IF w.S.fault THEN Kicker ELSE NoThread
    /\ crashed' = (crashed \/ w.S.fault)
    /\ lock_waits' = lock_waits \cup LockWaits(KickLocks)
    /\ UNCHANGED <<caller, hr, sy, mh, nr>>

\* ceph_osdc_handle_reset(who), lines 850-851, and lines 687-711.
KickEnter ==
    /\ kk.pc = "idle"
    /\ map_sem.writer = NoThread
    /\ MutexFree
    /\ \E who \in osds, outcome \in {"ok", "kmalloc_fails"} :
         KickLeave(KickWalk(Store, rb_first(requests), who, FALSE, outcome),
                   who)

\* lines 712-713: the test of r_aborted, request_mutex not held.
KickCheckAborted ==
    /\ kk.pc = "kk_kick"
    /\ kk' = [kk EXCEPT
         !.pc = IF req[kk.req].r_aborted THEN "kk_skip" ELSE "kk_send"]
    /\ UNCHANGED <<req, caller, last_tid, num_requests, timeout_tid,
                   timeout_work, requests, osds, o_requests, osdmap,
                   request_mutex, map_sem, hr, sy,
                   mh, lock_waits, nr, wire, signals, reg_order,
                   crashed>>

\* lines 714-717 on the store: the RETRY flag, send_request, r_resend.
KickResend(S, r, outcome) ==
    LET s == send_request([S EXCEPT !.req[r].r_flags = @ \cup {"RETRY"}],
                          r, outcome)
    IN  IF s.S.fault \/ s.ret = 0 THEN s.S
        ELSE [s.S EXCEPT !.req[r].r_resend = TRUE]

\* Where the kicker stands after its put of line 719.
KickPut(S) ==
    /\ Commit(S)
    /\ crashed' = (crashed \/ S.fault)
    /\ kk' = [kk EXCEPT !.pc = IF S.fault THEN "oops" ELSE "kk_relock"]
    /\ UNCHANGED <<caller, request_mutex, map_sem, hr, sy, mh, lock_waits, nr>>

\* line 719, unless the send faulted.
KickSent(S, r) == IF S.fault THEN S ELSE ceph_osdc_put_request(S, r)

\* lines 714-719, request_mutex not held.
KickSend ==
    /\ kk.pc = "kk_send"
    /\ \E outcome \in {"ok", "kmalloc_fails"} :
         KickPut(KickSent(KickResend(Store, kk.req, outcome), kk.req))

\* line 719 for a request seen aborted.
KickSkip ==
    /\ kk.pc = "kk_skip"
    /\ KickPut(ceph_osdc_put_request(Store, kk.req))

\* The node rb_next(p) of line 688 yields after the unlocked stretch: the
\* successor of p, or, when p was erased meanwhile, whatever its stale
\* links lead to.
KickNexts ==
    IF InIndex(kk.req) THEN {rb_next(requests, kk.req)}
    ELSE {Nil} \cup TreeNodes(requests)

\* lines 720-721 and 688-711, or 722-727.
KickRelock ==
    /\ kk.pc = "kk_relock"
    /\ MutexFree
    /\ \E p \in KickNexts, outcome \in {"ok", "kmalloc_fails"} :
         KickLeave(KickWalk(Store, p, kk.who, kk.needmap, outcome), kk.who)

KickStep ==
    \/ KickEnter
    \/ KickCheckAborted
    \/ KickSend
    \/ KickSkip
    \/ KickRelock

(***************************************************************************)
(* handle_timeout, lines 511-571.  Its body stands between #if 0 and       *)
(* #endif (lines 513, 570): the function the delayed work runs is empty.   *)
(* The work armed by schedule_delayed_work runs once and is not armed      *)
(* again.                                                                  *)
(***************************************************************************)
handle_timeout ==
    /\ timeout_work
    /\ timeout_work' = FALSE
    /\ UNCHANGED <<req, caller, last_tid, num_requests, timeout_tid, requests,
                   osds, o_requests, osdmap, request_mutex, map_sem, hr, sy,
                   kk, mh, lock_waits, nr, wire, signals, reg_order, crashed>>

(***************************************************************************)
(* ceph_osdc_handle_map, lines 739-838.  A map message is its fsid, a list *)
(* of incremental maps and a list of full maps, each with its epoch and a  *)
(* body that decodes or not; cut tells where the front ends too early.     *)
(* The decoders of osdmap.c give a map of the epoch of the entry, with the *)
(* primary the message carries for pg0.                                    *)
(***************************************************************************)
\* Epochs the monitors send.
MaxEpoch == 3

\* Entries of one message, incremental and full together.
MaxMaps == 2

\* Bits of the machine word that stands for the u64 of file offsets,
\* lengths and truncate sizes.
WordBits == 4

MapEntries == [epoch : 1 .. MaxEpoch, ok : BOOLEAN]

MapLists == UNION {[1 .. n -> MapEntries] : n \in 0 .. MaxMaps}

MapCuts == {"none", "fsid", "ninc", "inc", "nfull", "full"}

\* The messages: what lies behind the cut is not there.
MapMsgs ==
    {m \in [fsid_ok : BOOLEAN, cut : MapCuts, incs : MapLists,
            fulls : MapLists, primary : {0, 1}] :
       /\ Len(m.incs) + Len(m.fulls) <= MaxMaps
       /\ ~m.fsid_ok => (m.cut = "none" /\ m.incs = <<>> /\ m.fulls = <<>>)
       /\ m.cut \in {"fsid", "ninc"} => (m.incs = <<>> /\ m.fulls = <<>>)
       /\ m.cut = "inc" => (m.incs # <<>> /\ m.fulls = <<>>)
       /\ m.cut = "nfull" => m.fulls = <<>>
       /\ m.cut = "full" => m.fulls # <<>>
       /\ (m.incs = <<>> /\ m.fulls = <<>>) => m.primary = 0}

osdmap_apply_incremental(map, e, primary) ==
    [epoch |-> e.epoch, primary |-> [map.primary EXCEPT !["pg0"] = primary]]

osdmap_decode(e, primary) ==
    [epoch |-> e.epoch,
     primary |-> [pg \in PGs |-> IF pg = "pg0" THEN primary ELSE -1]]

\* lines 765-791 from entry i on: [map, incs, err], incs the epochs applied.
RECURSIVE MapIncrementals(_, _, _, _)
MapIncrementals(map, m, i, applied) ==
    IF i > Len(m.incs) THEN [map |-> map, incs |-> applied, err |-> FALSE]
    ELSE IF m.cut = "inc" /\ i = Len(m.incs)
      THEN [map |-> map, incs |-> applied, err |-> TRUE]
    ELSE IF map # NoMap /\ map.epoch + 1 = m.incs[i].epoch
      THEN IF ~m.incs[i].ok
           THEN [map |-> map, incs |-> applied, err |-> TRUE]
           ELSE MapIncrementals(
                  osdmap_apply_incremental(map, m.incs[i], m.primary),
                  m, i + 1, Append(applied, m.incs[i].epoch))
    ELSE MapIncrementals(map, m, i + 1, applied)

\* MapFulls taking the last full map when its epoch is not below ours
\* (> for >= at line 806).
RECURSIVE MapFulls_takes_equal(_, _, _)
MapFulls_takes_equal(map, m, i) ==
    IF i > Len(m.fulls)
    THEN [map |-> map, full |-> 0, fullidx |-> 0, err |-> FALSE]
    ELSE IF m.cut = "full" /\ i = Len(m.fulls)
      THEN [map |-> map, full |-> 0, fullidx |-> 0, err |-> TRUE]
    ELSE IF Len(m.fulls) - i + 1 > 1 THEN MapFulls_takes_equal(map, m, i + 1)
    ELSE IF map # NoMap /\ map.epoch > m.fulls[i].epoch
      THEN MapFulls_takes_equal(map, m, i + 1)
    ELSE IF ~m.fulls[i].ok
      THEN [map |-> map, full |-> 0, fullidx |-> 0, err |-> TRUE]
    ELSE [map |-> osdmap_decode(m.fulls[i], m.primary),
          full |-> m.fulls[i].epoch, fullidx |-> i, err |-> FALSE]

\* lines 798-824 from entry i on: [map, full, fullidx, err].
RECURSIVE MapFulls(_, _, _)
MapFulls(map, m, i) ==
    IF i > Len(m.fulls)
    THEN [map |-> map, full |-> 0, fullidx |-> 0, err |-> FALSE]
    ELSE IF m.cut = "full" /\ i = Len(m.fulls)
      THEN [map |-> map, full |-> 0, fullidx |-> 0, err |-> TRUE]
    ELSE IF Len(m.fulls) - i + 1 > 1 THEN MapFulls(map, m, i + 1)
    ELSE IF map # NoMap /\ map.epoch >= m.fulls[i].epoch
      THEN MapFulls(map, m, i + 1)
    ELSE IF ~m.fulls[i].ok
      THEN [map |-> map, full |-> 0, fullidx |-> 0, err |-> TRUE]
    ELSE [map |-> osdmap_decode(m.fulls[i], m.primary),
          full |-> m.fulls[i].epoch, fullidx |-> i, err |-> FALSE]

\* kick_requests as it is compiled: lines 682-728 are between #if 0 and
\* #endif, the function returns at once.
kick_requests(S, who) == S

\* lines 792-824 after the incrementals: [map, path, incs, full, fullidx].
MapAfterIncrementals(a, m) ==
    IF a.err
    THEN [map |-> a.map, path |-> "bad", incs |-> a.incs,
          full |-> 0, fullidx |-> 0]
    ELSE IF a.incs # <<>>
      THEN [map |-> a.map, path |-> "done", incs |-> a.incs,
            full |-> 0, fullidx |-> 0]
    ELSE IF m.cut = "nfull"
      THEN [map |-> a.map, path |-> "bad", incs |-> a.incs,
            full |-> 0, fullidx |-> 0]
    ELSE LET f == MapFulls(a.map, m, 1) IN
         [map |-> f.map, path |-> IF f.err THEN "bad" ELSE "done",
          incs |-> a.incs, full |-> f.full, fullidx |-> f.fullidx]

\* lines 749-824 on the map the client holds: [map, path, incs, full,
\* fullidx].  path "fsid" is the return of line 757, "bad_unlocked" the goto
\* bad of line 753, taken before down_write; "bad" and "done" are the two
\* labels reached with map_sem held for write.
handle_map(map, m) ==
    IF m.cut = "fsid"
    THEN [map |-> map, path |-> "bad_unlocked", incs |-> <<>>,
          full |-> 0, fullidx |-> 0]
    ELSE IF ~m.fsid_ok
      THEN [map |-> map, path |-> "fsid", incs |-> <<>>,
            full |-> 0, fullidx |-> 0]
    ELSE IF m.cut = "ninc"
      THEN [map |-> map, path |-> "bad", incs |-> <<>>,
            full |-> 0, fullidx |-> 0]
    ELSE MapAfterIncrementals(MapIncrementals(map, m, 1, <<>>), m)

\* What the thread leaves of map_sem.  up_write at line 836 of a semaphore
\* that was never taken (path "bad_unlocked") leaves its count as it was or
\* wedged; the NULL dereference of line 828 stops the thread after the
\* downgrade, holding the semaphore for read.
MapSemAfter(h) ==
    IF h.path = "bad_unlocked"
    THEN {map_sem, [map_sem EXCEPT !.writer = "wedged"]}
    ELSE IF h.path = "done" /\ h.map = NoMap
      THEN {[map_sem EXCEPT !.readers = @ \cup {"map"}]}
    ELSE {map_sem}

\* lines 826-831 on the store: ceph_monc_got_osdmap, and kick_requests when
\* a map was installed.
MapDone(S, h) ==
    IF h.path # "done" THEN S
    ELSE IF h.map = NoMap THEN [S EXCEPT !.fault = TRUE]
    ELSE LET S1 == [S EXCEPT !.wire.monc_got = h.map.epoch] IN
         IF h.incs # <<>> \/ h.full # 0 THEN kick_requests(S1, NoOsd) ELSE S1

HandleMapWith(m, h) ==
    /\ h.path \in {"bad", "done"}
         => (map_sem.writer = NoThread /\ map_sem.readers = {})
    /\ Commit(MapDone([Store EXCEPT !.osdmap = h.map], h))
    /\ crashed' = (crashed \/ (h.path = "done" /\ h.map = NoMap))
    /\ map_sem' \in MapSemAfter(h)
    /\ mh' = [path |-> h.path, before |-> osdmap, incs |-> h.incs,
              full |-> h.full, fullidx |-> h.fullidx,
              nfulls |-> Len(m.fulls)]
    /\ lock_waits' = lock_waits \cup LockWaits(MapLocks)
    /\ UNCHANGED <<caller, request_mutex, hr, sy, kk, nr>>

\* ceph_osdc_handle_map for one message: one step, as the thread holds
\* map_sem for write, then for read, from line 760 to line 831.
HandleMapAmong(M) == \E m \in M : HandleMapWith(m, handle_map(osdmap, m))

HandleMap == HandleMapAmong(MapMsgs)

(***************************************************************************)
(* ceph_osdc_new_request, lines 106-216: the ops of the message it builds. *)
(* u64 values are words of WordBits bits; the layout is its object size,   *)
(* with one stripe unit per object.                                        *)
(***************************************************************************)
Word == 2 ^ WordBits

\* What the callers pass: a file extent that ends within the word, a read
\* or a write, the truncate point the inode knows, the object size.
NewRequestInputs ==
    {i \in [off : 0 .. Word - 1, plen : 1 .. Word - 1,
            opcode : {"READ", "WRITE"}, do_sync : BOOLEAN,
            truncate_seq : {0, 1, 7}, truncate_size : 0 .. Word - 1,
            object_size : {Word \div 4, Word \div 2}] :
       i.off + i.plen < Word}

\* The extent of the object that holds file offset off: [bno, objoff,
\* objlen], objlen the part of plen that lies in that object.
ceph_calc_file_object_mapping(object_size, off, plen) ==
    LET objoff == off % object_size
        room   == object_size - objoff
    IN  [bno |-> off \div object_size, objoff |-> objoff,
         objlen |-> IF plen < room THEN plen ELSE room]

\* lines 123-125 and 175-200: the primary op as calc_layout fills it, the
\* truncate op, the startsync op; len is *plen as calc_layout leaves it.
new_request_ops(i) ==
    LET do_trunc == i.truncate_seq # 0
                    /\ (i.off + i.plen) % Word > i.truncate_size
        x        == ceph_calc_file_object_mapping(i.object_size, i.off, i.plen)
        primary  == [op |-> i.opcode, offset |-> x.objoff,
                     length |-> x.objlen, truncate_seq |-> 0,
                     truncate_size |-> 0]
        trunc    == [op |-> IF i.opcode = "READ" THEN "MASKTRUNC"
                            ELSE "SETTRUNC",
                     offset |-> 0, length |-> 0,
                     truncate_seq |-> i.truncate_seq,
                     truncate_size |->
                       (i.truncate_size - ((i.off - primary.offset) % Word))
                         % Word]
        sync     == [op |-> "STARTSYNC", offset |-> 0, length |-> 0,
                     truncate_seq |-> 0, truncate_size |-> 0]
    IN  [off |-> i.off, plen |-> i.plen, opcode |-> i.opcode,
         truncate_seq |-> i.truncate_seq, truncate_size |-> i.truncate_size,
         object_size |-> i.object_size, len |-> x.objlen,
         ops |-> <<primary>> \o (IF do_trunc THEN <<trunc>> ELSE <<>>)
                             \o (IF i.do_sync THEN <<sync>> ELSE <<>>)]

\* A caller builds a request message; nr keeps the one message of a run.
NewRequest ==
    /\ nr = NoOps
    /\ \E i \in NewRequestInputs : nr' = new_request_ops(i)
    /\ UNCHANGED <<req, caller, last_tid, num_requests, timeout_tid,
                   timeout_work, requests, osds, o_requests, osdmap,
                   request_mutex, map_sem, hr, sy, kk, mh, lock_waits, wire,
                   signals, reg_order, crashed>>

(***************************************************************************)
(* Specifications.                                                         *)
(***************************************************************************)
CallerStep(r) ==
    \/ StartRegister(r)
    \/ StartSend(r)
    \/ WaitDone(r)
    \/ AbortSetFlag(r)
    \/ AbortRevokePages(r)
    \/ AbortPutReply(r)
    \/ CallerPut(r)

TransportStep ==
    \/ PreparePages
    \/ HandleReplyBad
    \/ HandleReply
    \/ HandleReplyCallback
    \/ HandleReplySafe
    \/ HandleReplyDone

\* The callers of the first MaxStarted records, and the transport thread.
Next ==
    \/ \E r \in 1 .. MaxStarted : CallerStep(r)
    \/ TransportStep

Spec == Init /\ [][Next]_vars

\* kick_requests against synchronous reads and writes whose callers wait,
\* abort and put, for the first MaxStarted records.
KickCaller(r) ==
    \/ StartRegisterAs(r, SyncKinds)
    \/ StartSendWith(r, {"ok", "kmalloc_fails"}, {TRUE})
    \/ WaitDone(r)
    \/ AbortSetFlag(r)
    \/ AbortRevokePages(r)
    \/ CallerPut(r)

KickTransport ==
    \/ HandleReplyAmong(RepliesWith(OkPayloads))
    \/ HandleReplyCallback
    \/ HandleReplySafe
    \/ HandleReplyDone

KickNext ==
    \/ \E r \in 1 .. MaxStarted : KickCaller(r)
    \/ KickTransport
    \/ KickStep

SpecKick == Init /\ [][KickNext]_vars

\* ceph_osdc_sync against synchronous reads and writes that are sent and
\* answered without error, for all MaxReqs records.
SyncCaller(r) ==
    \/ StartRegisterAs(r, SyncKinds)
    \/ StartSendWith(r, {"ok"}, {FALSE})

SyncTransport ==
    \/ HandleReplyAmong(RepliesWith(OkPayloads))
    \/ HandleReplyCallback
    \/ HandleReplySafe
    \/ HandleReplyDone

SyncNext ==
    \/ \E r \in Reqs : SyncCaller(r)
    \/ SyncTransport
    \/ SyncStep

SpecSync == Init /\ [][SyncNext]_vars

\* The thread in ceph_osdc_sync runs whenever it can: when the completion
\* it waits for is signalled, and when request_mutex is free.
SpecSyncFair == SpecSync /\ WF_vars(SyncStep)

\* The timeout worker against synchronous reads and writes started with
\* nofail, whose sends can fail.
TimeoutNext ==
    \/ \E r \in 1 .. MaxStarted : KickCaller(r)
    \/ KickTransport
    \/ handle_timeout

SpecTimeout == Init /\ [][TimeoutNext]_vars

\* The delayed work runs when it is armed.
SpecTimeoutFair == SpecTimeout /\ WF_vars(handle_timeout)

\* Map messages against requests that are started and in flight.
MapCaller(r) ==
    \/ StartRegisterAs(r, SyncKinds)
    \/ StartSendWith(r, {"ok"}, {FALSE})

MapNext ==
    \/ \E r \in 1 .. MaxRouted : MapCaller(r)
    \/ HandleMap

SpecMap == Init /\ [][MapNext]_vars

\* ceph_osdc_sync against synchronous reads and writes whose callers
\* wait, abort and put, with every outcome of the send and every reply,
\* for the first MaxStarted records.
RefsCaller(r) ==
    \/ StartRegisterAs(r, SyncKinds)
    \/ StartSend(r)
    \/ WaitDone(r)
    \/ AbortSetFlag(r)
    \/ AbortRevokePages(r)
    \/ AbortPutReply(r)
    \/ CallerPut(r)

RefsNext ==
    \/ \E r \in 1 .. MaxStarted : RefsCaller(r)
    \/ TransportStep
    \/ SyncStep

SpecRefs == Init /\ [][RefsNext]_vars

\* Map messages to a client that holds no map yet.
SpecMount == InitNoMap /\ [][HandleMap]_vars

\* Request messages built for every extent, opcode and truncate point.
SpecBuild == Init /\ [][NewRequest]_vars

(***************************************************************************)
(* Properties.                                                             *)
(***************************************************************************)
\* The step in which the transport thread handled a reply for a request of
\* the index: the request is hr'.req, the reply hr'.msg, and hr'.late tells
\* that r_aborted was set.
ReplyHandled == hr.pc = "idle" /\ hr'.pc # "idle"

\* C1: for every request the first-response signal (r_callback, else
\* complete(&r_completion)) fires at most once, and the safe signal fires
\* at most once, whatever replies are handled for it.
C1_EachSignalAtMostOnce ==
    \A r \in Reqs : signals[r].first <= 1 /\ signals[r].safe <= 1

\* C2: a reply handled for a request whose r_aborted is set goes straight
\* to done: no callback, no completion, r_result and r_got_reply as they
\* were; and until the handler has returned nothing is signalled for it.
C2_AbortedReplyHasNoEffect ==
    [][/\ (ReplyHandled /\ hr'.late) =>
            /\ hr'.pc = "hr_done"
            /\ signals' = signals
            /\ req'[hr'.req].r_result = req[hr'.req].r_result
            /\ req'[hr'.req].r_got_reply = req[hr'.req].r_got_reply
            /\ req'[hr'.req].r_completion = req[hr'.req].r_completion
            /\ req'[hr'.req].r_safe_completion = req[hr'.req].r_safe_completion
       /\ (hr.late /\ hr.pc = "hr_done") =>
            /\ signals'[hr.req] = signals[hr.req]
            /\ req'[hr.req].r_completion <= req[hr.req].r_completion
            /\ req'[hr.req].r_safe_completion <= req[hr.req].r_safe_completion
      ]_vars

\* A reply that would have changed the result was handled for an aborted
\* request that already had its first reply.
C2_Witness ==
    /\ hr.pc = "hr_done"
    /\ hr.late
    /\ req[hr.req].r_got_reply
    /\ req[hr.req].r_result = 8
    /\ hr.msg.result # 0

C4_TidsIncreaseInRegistrationOrder ==
    /\ \A i \in 1 .. Len(reg_order) : req[reg_order[i]].r_tid > 0
    /\ \A i, j \in 1 .. Len(reg_order) :
         i < j => req[reg_order[i]].r_tid < req[reg_order[j]].r_tid

\* Two callers registered their requests one after the other, before
\* either had sent.
C4_Witness ==
    /\ Len(reg_order) = 2
    /\ \A i \in 1 .. 2 : caller[reg_order[i]].pc = "registered"

\* The request the handled reply is for is out of the index for a read or
\* for a reply with ONDISK, and in the index for the ack of a write.
RemovedByReply ==
    IF "WRITE" \in req[hr'.req].r_flags /\ "ONDISK" \notin hr'.msg.flags
    THEN hr'.req \in TreeNodes(requests')
    ELSE hr'.req \notin TreeNodes(requests')

\* C5, as stated: whenever a reply is handled for a request, a read is
\* removed from the index, a write stays in it on a reply without ONDISK
\* and is removed on a reply with ONDISK.
C5_ReplyRemoves ==
    [][ReplyHandled => RemovedByReply]_vars

\* C5, amended: the same for a request whose r_aborted is not set when the
\* reply is handled; and a started request leaves the index only in the
\* step that handles a reply for it, with ONDISK if it is a write.
C5_ReplyRemovesUnlessAborted ==
    [][/\ (ReplyHandled /\ ~hr'.late) => RemovedByReply
       /\ \A q \in Reqs :
            (/\ q \in TreeNodes(requests)
             /\ q \notin TreeNodes(requests')
             /\ caller[q].pc # "registered")
            => /\ ReplyHandled
               /\ hr'.req = q
               /\ "WRITE" \in req[q].r_flags => "ONDISK" \in hr'.msg.flags
      ]_vars

\* The commit of an acked write was handled and took it out of the index.
C5_Witness ==
    /\ hr.pc = "hr_cb"
    /\ ~hr.late
    /\ hr.msg.flags = {"WRITE", "ONDISK"}
    /\ signals[hr.req].first = 1
    /\ ~InIndex(hr.req)

\* C6: for a write that is not aborted, the first reply without ONDISK sets
\* r_got_reply and goes on to fire the first-response signal; a further
\* reply without ONDISK goes straight to done and leaves the signals, the
\* completions, r_result, r_reassert_version, r_flags, r_osd, the index,
\* the registry and the session lists as they were.
C6_DuplicateAckIsNoOp ==
    [][/\ (/\ ReplyHandled
           /\ ~hr'.late
           /\ "WRITE" \in req[hr'.req].r_flags
           /\ "ONDISK" \notin hr'.msg.flags)
          => IF ~req[hr'.req].r_got_reply
             THEN /\ req'[hr'.req].r_got_reply
                  /\ hr'.pc = "hr_cb"
             ELSE /\ hr'.pc = "hr_done"
                  /\ signals' = signals
                  /\ req'[hr'.req].r_completion = req[hr'.req].r_completion
                  /\ req'[hr'.req].r_safe_completion
                       = req[hr'.req].r_safe_completion
                  /\ req'[hr'.req].r_got_reply
                  /\ req'[hr'.req].r_result = req[hr'.req].r_result
                  /\ req'[hr'.req].r_reassert_version
                       = req[hr'.req].r_reassert_version
                  /\ req'[hr'.req].r_flags = req[hr'.req].r_flags
                  /\ req'[hr'.req].r_osd = req[hr'.req].r_osd
                  /\ requests' = requests
                  /\ osds' = osds
                  /\ o_requests' = o_requests
       /\ (hr.pc = "hr_cb" /\ hr'.pc # "hr_cb")
          => signals'[hr.req].first = signals[hr.req].first + 1
       /\ (hr.pc = "hr_done" /\ hr.path = "dup")
          => signals'[hr.req] = signals[hr.req]
      ]_vars

\* A second ack, with another result than the first, was handled for a
\* write whose first-response signal had fired.
C6_Witness ==
    /\ hr.pc = "hr_done"
    /\ hr.path = "dup"
    /\ signals[hr.req].first = 1
    /\ req[hr.req].r_result = 8
    /\ hr.msg.result # 0

\* C7: when ceph_osdc_sync has returned, every write that was in the index
\* with a tid up to the snapshot when it entered has had its safe signal;
\* and the request it waits on is a write with a tid up to the snapshot.
C7_SyncWaitsForEntryWrites ==
    /\ sy.pc = "sy_done" => \A r \in sy.entry : signals[r].safe >= 1
    /\ sy.pc \in {"sy_wait", "sy_relock"} =>
         /\ "WRITE" \in req[sy.req].r_flags
         /\ req[sy.req].r_tid <= sy.last_tid

\* C8: once ceph_osdc_sync has entered and every write of its entry set has
\* had its safe signal, it returns.
C8_SyncTerminates ==
    (sy.pc # "idle" /\ \A r \in sy.entry : signals[r].safe >= 1)
      ~> (sy.pc = "sy_done")

\* C9: no session of the registry has a negative ordinal; and a request
\* started for a placement group without a primary, its send not failed, is
\* in the index, routed to no session, not handed to the transport, and a
\* newer map is asked of the monitor.
C9_NoPrimaryAsksForMap ==
    /\ \A o \in osds : o >= 0
    /\ \A r \in Reqs :
         (/\ caller[r].pc = "started"
          /\ ceph_calc_pg_primary(osdmap, req[r].r_pg) = -1
          /\ ~req[r].r_resend)
         => /\ InIndex(r)
            /\ req[r].r_osd = NoOsd
            /\ ~wire.sent[r]
            /\ wire.monc_want = osdmap.epoch + 1

\* C10: the step of ceph_osdc_start_request that unregisters the request
\* (the send failed, nofail is false) returns -ENOMEM to the caller, with
\* the request out of the index, the live-count back by one, the registry
\* and the session lists as they were, and one reference left.
C10_FailedStartUnregisters ==
    [][\A r \in Reqs :
         (/\ caller[r].pc = "registered"
          /\ r \in TreeNodes(requests)
          /\ r \notin TreeNodes(requests'))
         => /\ caller'[r].pc = "start_failed"
            /\ caller'[r].rc = -ENOMEM
            /\ num_requests' = num_requests - 1
            /\ osds' = osds
            /\ o_requests' = o_requests
            /\ req'[r].r_ref = 1
      ]_vars

\* C11: a request that start_request left in the index with r_resend set
\* (the send failed, nofail) is retried by the timeout worker: it does not
\* stay in the index with r_resend set for ever.
C11_TimeoutRetriesResend ==
    \A r \in Reqs :
      (InIndex(r) /\ req[r].r_resend) ~> ~(InIndex(r) /\ req[r].r_resend)

\* C12: the step of the map handler that installs a map under which the
\* primary of a sent request's placement group is another osd B leaves the
\* request off the list of its old session A (A out of the registry if its
\* list is empty), on the list of session B, and resent to B with RETRY.
C12_MapChangeReroutes ==
    [][\A r \in Reqs :
         LET A == req[r].r_osd
             B == ceph_calc_pg_primary(osdmap', req[r].r_pg)
         IN  (/\ osdmap' # osdmap
              /\ mh'.path = "done"
              /\ InIndex(r)
              /\ wire.sent[r]
              /\ A >= 0
              /\ B >= 0
              /\ B # A)
             => /\ req'[r].r_osd = B
                /\ B \in osds'
                /\ r \in o_requests'[B]
                /\ r \notin o_requests'[A]
                /\ o_requests'[A] = {} => A \notin osds'
                /\ wire'.last[r] = [osd |-> B, retry |-> TRUE,
                                    epoch |-> osdmap'.epoch]
      ]_vars

\* C13: the epoch of the client's map never decreases; the incrementals a
\* message had applied are those of the epochs following the map's, one by
\* one; no full map is taken when an incremental was applied; the full map
\* taken is the last of its list and of an epoch above the map's; and the
\* map installed is of the epoch of the last entry applied.
C13_EpochNeverDecreases ==
    [][/\ osdmap'.epoch >= osdmap.epoch
       /\ osdmap' # osdmap =>
            /\ osdmap'.epoch > osdmap.epoch
            /\ mh'.before = osdmap
            /\ \A i \in 1 .. Len(mh'.incs) : mh'.incs[i] = osdmap.epoch + i
            /\ mh'.incs # <<>> =>
                 (mh'.full = 0 /\ osdmap'.epoch = osdmap.epoch + Len(mh'.incs))
            /\ mh'.incs = <<>> =>
                 /\ mh'.full = osdmap'.epoch
                 /\ mh'.fullidx = mh'.nfulls
      ]_vars

\* A message whose incremental was applied and whose full map, of a higher
\* epoch still, was skipped.
C13_Witness ==
    /\ mh.path = "done"
    /\ mh.incs = <<2>>
    /\ mh.nfulls = 1
    /\ mh.full = 0
    /\ osdmap.epoch = 2

\* C14: after a message the handler dropped at its bad label, the client's
\* map is the map it had when the message arrived.
C14_BadMessageKeepsMap ==
    mh.path \in {"bad", "bad_unlocked"} => osdmap = mh.before

\* C15: the first reply handled for a request that is not aborted sets
\* r_result to its result field, or to its data_len when that field is 0;
\* once r_got_reply is set no step changes r_result; and a caller woken in
\* ceph_osdc_wait_request returns that r_result.
C15_ResultIsFirstReply ==
    [][/\ (ReplyHandled /\ ~hr'.late /\ ~req[hr'.req].r_got_reply)
            => /\ req'[hr'.req].r_got_reply
               /\ req'[hr'.req].r_result =
                    IF hr'.msg.result # 0 THEN hr'.msg.result
                    ELSE hr'.msg.bytes
       /\ \A r \in Reqs :
            /\ (req[r].r_got_reply /\ req'[r].r_ref > 0)
                 => /\ req'[r].r_got_reply
                    /\ req'[r].r_result = req[r].r_result
            /\ (caller[r].pc = "started" /\ caller'[r].pc = "returned")
                 => /\ req[r].r_got_reply
                    /\ caller'[r].rc = req[r].r_result
      ]_vars

\* The caller of a write returned the byte count of the ack, and the commit,
\* which carries an error, has been handled since.
C15_Witness ==
    /\ hr.pc = "hr_cb"
    /\ "ONDISK" \in hr.msg.flags
    /\ hr.msg.result # 0
    /\ caller[hr.req].pc = "returned"
    /\ caller[hr.req].rc = 8
    /\ req[hr.req].r_result = 8

\* C16: the step that fires the first-response signal of a request, or its
\* safe signal, starts with r_got_reply set on that request.
C16_SignalsFollowGotReply ==
    [][\A r \in Reqs :
         (\/ signals'[r].first > signals[r].first
          \/ signals'[r].safe > signals[r].safe)
         => req[r].r_got_reply
      ]_vars

\* The commit was the first reply of a write: both signals have fired once.
C16_Witness ==
    /\ hr.pc = "hr_done"
    /\ hr.path = "signal"
    /\ hr.msg.flags = {"WRITE", "ONDISK"}
    /\ signals[hr.req] = [first |-> 1, safe |-> 1]

\* The request of the index with the smallest tid at or above want, or Nil.
LowestGe(want) ==
    LET C == {r \in TreeNodes(requests) : req[r].r_tid >= want} IN
    IF C = {} THEN Nil
    ELSE CHOOSE r \in C : \A q \in C : req[r].r_tid <= req[q].r_tid

\* C17: for the index as it stands and every tid, __lookup_request_ge
\* returns the indexed request with the smallest tid at or above it, and
\* NULL only when there is none.
C17_LookupGeFindsLowest ==
    \A want \in 0 .. MaxReqs + 1 :
      __lookup_request_ge(requests, Tids, want) = LowestGe(want)

\* C18: every session of the registry has a request on its list; a session
\* whose list was emptied is out of the registry in the state the detaching
\* function leaves.
C18_SessionsHaveRequests ==
    \A o \in osds : o_requests[o] # {}

\* A request was sent to its session and unregistered since, which emptied
\* and removed the session, while another request is registered and not
\* routed yet.
C18_Witness ==
    /\ ~crashed
    /\ osds = {}
    /\ \E r \in Reqs : wire.sent[r] /\ req[r].r_ref > 0 /\ ~InIndex(r)
    /\ \E r \in Reqs : InIndex(r)

RefHolders(r) ==
    (IF InIndex(r) THEN 1 ELSE 0)
    + (IF hr.req = r /\ hr.pc \in {"hr_cb", "hr_safe", "hr_done"}
       THEN 1 ELSE 0)
    + (IF sy.req = r /\ sy.pc \in {"sy_wait", "sy_relock"} THEN 1 ELSE 0)
    + (IF caller[r].pc \in {"registered", "started", "start_failed",
                            "returned", "abort_pages", "abort_reply"}
       THEN 1 ELSE 0)

\* C20: an indexed request has r_ref >= 1, and r_ref covers every put a
\* thread has still to make, so that no ceph_osdc_put_request finds a
\* count <= 0.
C20_IndexHoldsReference ==
    \A r \in Reqs :
      /\ InIndex(r) => req[r].r_ref >= 1
      /\ req[r].r_ref >= RefHolders(r)

\* A write was acknowledged, its caller waited and made its final put;
\* the request is still indexed and ceph_osdc_sync waits for it with its
\* own reference.
C20_Witness ==
    /\ ~crashed
    /\ hr.pc = "idle"
    /\ \E r \in Reqs :
         /\ InIndex(r) /\ req[r].r_got_reply
         /\ caller[r].pc = "done"
         /\ sy.pc = "sy_wait" /\ sy.req = r
         /\ req[r].r_ref = 2

\* A thread takes a step from a place of its code where it does not hold
\* request_mutex and that is not a mutex_lock: the kicker between the
\* unlock of line 711 and the lock of line 720, the reply handler after
\* line 645, ceph_osdc_sync in its wait, a caller after
\* ceph_osdc_start_request returned.
StepOutsideMutex ==
    \/ kk.pc \in {"kk_kick", "kk_send", "kk_skip"} /\ kk' # kk
    \/ hr.pc \in {"hr_cb", "hr_safe", "hr_done"} /\ hr' # hr
    \/ sy.pc = "sy_wait" /\ sy' # sy
    \/ \E r \in Reqs :
         /\ caller[r].pc \in {"started", "start_failed", "returned",
                               "abort_pages", "abort_reply"}
         /\ caller'[r] # caller[r]

LockRank(lock) ==
    CASE lock = "map_sem" -> 1
      [] lock = "request_mutex" -> 2
      [] lock = "page_mutex" -> 3

TruncOps ==
    {nr.ops[k] : k \in {k \in 2 .. Len(nr.ops) :
                          nr.ops[k].op \in {"MASKTRUNC", "SETTRUNC"}}}

\* C25: the message has a truncate op exactly when truncate_seq is not 0
\* and off + plen > truncate_size; the op is MASKTRUNC for a read and
\* SETTRUNC otherwise, carries truncate_seq, and its truncate_size is
\* truncate_size - (off - object offset of the primary op), a value from
\* 0 to truncate_size.
C25_TruncateOp ==
    nr # NoOps =>
      /\ TruncOps # {}
            <=> (nr.truncate_seq # 0 /\ nr.off + nr.plen > nr.truncate_size)
      /\ \A t \in TruncOps :
            /\ t.op = (IF nr.opcode = "READ" THEN "MASKTRUNC" ELSE "SETTRUNC")
            /\ t.truncate_seq = nr.truncate_seq
            /\ t.truncate_size
                 = nr.truncate_size - (nr.off - nr.ops[1].offset)
            /\ t.truncate_size \in 0 .. nr.truncate_size

\* C23: whenever the request index is not empty a run of the timeout
\* worker is pending.
C23_TimeoutPendingWhileIndexed ==
    TreeNodes(requests) # {} => timeout_work

\* C24: a map message dropped as corrupt was dropped with map_sem held for
\* write (the goto bad came after the down_write of line 760), and the
\* up_write of the error exit leaves map_sem free.
C24_AbortHoldsMapSem ==
    mh.path \in {"bad", "bad_unlocked"} =>
      /\ mh.path = "bad"
      /\ map_sem.writer = NoThread

\* C26: when ceph_osdc_handle_reply has returned, the transport thread
\* does not hold request_mutex.
C26_ReplyReturnsUnlocked ==
    hr.pc = "idle" => request_mutex # Handler

\* C27: a request that is aborted and in the index stays in the index
\* through every step: no reply removes it, num_requests stays above 0 and
\* the reference the index holds is kept.
C27_AbortedStaysIndexed ==
    [][\A r \in Reqs :
         (InIndex(r) /\ req[r].r_aborted) =>
           /\ r \in TreeNodes(requests')
           /\ num_requests' >= 1
           /\ req'[r].r_ref >= 1]_vars

\* A reply for an aborted request was handled and the handler has made its
\* put: the request is still indexed, its caller gone.
C27_Witness ==
    /\ hr.pc = "idle"
    /\ request_mutex = Handler
    /\ \E r \in Reqs :
         /\ req[r].r_aborted /\ InIndex(r)
         /\ caller[r].pc = "done"
         /\ req[r].r_ref = 1

\* C28: the reply pinned by ceph_osdc_prepare_pages is put once: no step
\* puts it more often than it was pinned, and the abort that found r_reply
\* set does not stop at a NULL r_reply.
C28_PinnedReplyPutOnce ==
    [][\A r \in Reqs :
         /\ wire'.reply_ref[r] >= 0
         /\ caller[r].pc = "abort_reply" => caller'[r].pc # "oops"]_vars

\* The smallest tid in the index, 0 when the index is empty.
LowestTid ==
    IF TreeNodes(requests) = {} THEN 0
    ELSE req[rb_first(requests)].r_tid

\* C29: timeout_tid is 0 exactly when the index is empty, and is the
\* smallest tid of the index otherwise.
C29_TimeoutTidIsLowest ==
    timeout_tid = LowestTid

\* C30: ceph_osdc_prepare_pages succeeds at most once for a request, and
\* only when the request is in the index, not aborted, not prepared yet
\* and has the pages wanted; a step that pins a reply, takes a reference
\* on it or sets r_prepared_pages is such a success.
C30_PreparePagesOnce ==
    [][\A r \in Reqs :
         /\ wire'.prepared[r].n <= 1
         /\ wire'.prepared[r].n > wire.prepared[r].n =>
               /\ InIndex(r)
               /\ ~req[r].r_aborted
               /\ ~req[r].r_prepared_pages
               /\ wire'.prepared[r].fits
         /\ (\/ req[r].r_reply = Nil /\ req'[r].r_reply # Nil
             \/ wire'.reply_ref[r] > wire.reply_ref[r]
             \/ ~req[r].r_prepared_pages /\ req'[r].r_prepared_pages)
               => wire'.prepared[r].n = wire.prepared[r].n + 1]_vars

\* The reply of a write was prepared and handled; the write is still in
\* the index, waiting for its commit, and a reply for it can be read off
\* the wire again.
C30_Witness ==
    /\ hr.pc = "idle"
    /\ MutexFree
    /\ \E r \in Reqs :
         /\ wire.prepared[r].n = 1
         /\ InIndex(r) /\ req[r].r_prepared_pages
         /\ req[r].r_reply = Nil /\ req[r].r_got_reply

\* C31: when ceph_osdc_handle_map has reached done (lines 826-828), the
\* client holds an osd map.
C31_MapSetAtDone ==
    mh.path = "done" => osdmap # NoMap
====
